---- MODULE Spec2Model ----
(***************************************************************************)
(* A model of the spider_crab crawler: the traversal engine                *)
(* (src/src/crawler.rs), the link filter (src/src/parser.rs) and the       *)
(* middleware chain Retry -> Slowdown -> Limiter -> Transport              *)
(* (src/src/client_middleware.rs, composed in src/src/main.rs).            *)
(*                                                                         *)
(* Spec    : one crawl; every fetch task runs through the chain of         *)
(*           crawler_client, against a server that answers 200 or fails.   *)
(* SpecMw  : NumWorkers callers of client.get(url).send() sharing the      *)
(*           chain of crawler_client, against a server that may answer     *)
(*           429 with a Retry-After header.                                *)
(* SpecOne : one caller through the chain Retry -> Slowdown -> Transport   *)
(*           of tests/middleware.rs, against that test's server: 429 on    *)
(*           the first hit, 200 afterwards.                                *)
(***************************************************************************)
EXTENDS Integers, Sequences, FiniteSets, TLC

(***************************************************************************)
(* Bounds of the model.                                                    *)
(***************************************************************************)
NumUrls == 4
MaxPagesCfg == 2
MaxTimeCfg == 0
MaxPermits == 2
NumWorkers == 2
MaxRetries == 1
MaxClockMw == 2
MaxSkew == 1
NumReceivers == 1

\* the depth of the channel, broadcast::channel(100) in build, on the scale
\* of the crawls modelled
ChannelDepth == 1

\* if seconds > 60 { seconds = 60; }
MaxRetryAfter == 60

\* crawler_client(5, Duration::from_secs(5), ..): the default wait of main
DefaultRetryAfterMain == 5

\* RetryTooManyRequestsMiddleware::new(Duration::from_secs(1)) of the test
DefaultRetryAfterTest == 1

\* Option<T>: None is the empty tuple, Some(x) the one-element tuple.
None == <<>>
Some(x) == <<x>>
IsSome(o) == o # None
Unwrap(o) == o[1]

Max(a, b) == IF a >= b THEN a ELSE b

VARIABLES
  site,        \* what the server holds: url -> the links parse_links finds on it
  robot,       \* Crawler.robot: None, or Some(the set of urls the policy disallows)
  max_pages,   \* Crawler.max_pages: Option<u64>
  max_time,    \* Crawler.max_time: Option<Duration>, in seconds
  capacity,    \* MaxConcurrentMiddleware::new(max_concurrent)
  limiter,     \* whether the chain holds a MaxConcurrentMiddleware
  max_retries, \* build_with_max_retries(max_retries)
  default_retry_after, \* RetryTooManyRequestsMiddleware.default_retry_after, seconds
  available,   \* semaphore.available_permits()
  retry_after, \* RetryTooManyRequestsMiddleware.retry_after: Option<SystemTime>
  now,         \* SystemTime::now(), in seconds
  hits,        \* the number of requests the server has answered
  due,         \* history of the 429 responses that came with Retry-After: k, each
               \* at some time r: the latest r + min(k, 60) and the latest r + k
               \* (clamped, raw), and the not-before that the latest
               \* post-response hook stored (stored)
  tasks,       \* Crawler.tasks (the JoinSet): every task ever spawned, in spawn order
  cpc,         \* where crawl() is: "built", "loop", "returned" ("none": no crawl)
  stopped,     \* how crawl left its loop: "no", "drained", "max_pages", "max_time"
  seed,        \* the url crawl was called with
  start_time,  \* crawl's start_time
  visited,     \* crawl's visited
  pages,       \* crawl's pages
  page_count,  \* crawl's page_count
  sent,        \* what was sent on Crawler.channel, in order
  doc,         \* a page handed to parse_links: its url, the href of each of its
               \* anchors, and the links found once it is parsed
  rx           \* the receivers made by Crawler::subscribe, in the order made: alive
               \* until dropped, next the position in sent of the value it
               \* receives next, lost how many values it has missed

config == <<site, robot, max_pages, max_time, capacity, limiter, max_retries,
            default_retry_after>>

crawl == <<cpc, stopped, seed, start_time, visited, pages, page_count, sent, rx>>

vars == <<config, crawl, available, retry_after, now, hits, due, tasks, doc>>

(***************************************************************************)
(* URLs.  All urls are on the crawled domain (parse_links keeps no other), *)
(* so a url is identified by its path, a sequence of characters.           *)
(***************************************************************************)
Urls == 0 .. NumUrls - 1

\* the characters of the paths that have no page of the site
PathChars == <<"/", ".", "h", "t", "m", "l">>

\* the n-th text over PathChars, shorter texts first
RECURSIVE PathText(_)
PathText(n) ==
  IF n = 0 THEN <<>>
    ELSE PathText((n - 1) \div Len(PathChars))
           \o <<PathChars[((n - 1) % Len(PathChars)) + 1]>>

\* url.path(): the paths of the pages of the site, then "/p" followed by
\* each text over PathChars in turn
Path(u) ==
  CASE u = 0 -> <<"/">>
    [] u = 1 -> <<"/", "a", "b", "o", "u", "t">>
    [] u = 2 -> <<"/", "c", "o", "s", "t", ".", "h", "t", "m", "l">>
    [] u = 3 -> <<"/", "h", "o", "m", "e", ".", "p", "d", "f">>
    [] OTHER -> <<"/", "p">> \o PathText(u - 4)

\* path.contains('.')
ContainsDot(path) == \E i \in 1 .. Len(path) : path[i] = "."

\* path.split('.').last(): the text after the last '.'
LastSuffix(path) ==
  LET last == CHOOSE i \in 1 .. Len(path) :
                /\ path[i] = "."
                /\ \A j \in i + 1 .. Len(path) : path[j] # "."
  IN  SubSeq(path, last + 1, Len(path))

\* an assume_html that takes every path for html
assume_html_any(u) == TRUE

assume_html(u) ==
  LET path == Path(u)
  IN  IF ContainsDot(path) THEN LastSuffix(path) = <<"h", "t", "m", "l">> ELSE TRUE

\* robot.allowed(url)
RobotAllowed(policy, u) == u \notin policy

\* a can_visit that lets every url pass
can_visit_any(u) == TRUE

\* a can_visit that does not ask the robots policy
can_visit_no_robot(u) == assume_html(u)

can_visit(u) ==
  assume_html(u) /\ (IF robot = None THEN TRUE ELSE RobotAllowed(Unwrap(robot), u))

(***************************************************************************)
(* The sites a crawl is run on, and the robots policies.                   *)
(***************************************************************************)
\* each page links to the next one
SiteChain == [u \in Urls |-> {u + 1} \cap Urls]

\* every page links to every page, itself and the seed included
SiteFull == [u \in Urls |-> Urls]

\* the link graph of MockUrlVisitor: the root and a second page both link to
\* the second and a third page, the third to a fourth url
SiteMonzo == [u \in Urls |-> CASE u = 0 -> {1, 2} \cap Urls
                               [] u = 1 -> {1, 2} \cap Urls
                               [] u = 2 -> {3} \cap Urls
                               [] OTHER -> {}]
Sites == {SiteChain, SiteFull, SiteMonzo}

Robots == {None, Some({2}), Some({0, 1})}

\* the urls a crawl is started from: the root, a page, and one that is no html
Seeds == {0, 2, 3} \cap Urls

(***************************************************************************)
(* Responses of the transport.  status 0 stands for Err(_), a request that *)
(* got no response; hdr is the Retry-After header, a sequence of           *)
(* characters, if there is one.                                            *)
(***************************************************************************)
R200 == [status |-> 200, hdr |-> None]
RErr == [status |-> 0, hdr |-> None]
R429(h) == [status |-> 429, hdr |-> h]
NoResp == [status |-> 0, hdr |-> None, at |-> 0]

\* header.to_str(): Ok unless a character is not visible ASCII
NonAscii == {"e-acute"}

ToStrOk(s) == \A i \in 1 .. Len(s) : s[i] \notin NonAscii

DigitVal(c) ==
  CASE c = "0" -> 0 [] c = "1" -> 1 [] c = "2" -> 2 [] c = "3" -> 3 [] c = "4" -> 4
    [] c = "5" -> 5 [] c = "6" -> 6 [] c = "7" -> 7 [] c = "8" -> 8 [] c = "9" -> 9
    [] OTHER -> -1

RECURSIVE ParseDigits(_, _)
ParseDigits(s, acc) ==
  IF s = <<>> THEN Some(acc)
  ELSE IF DigitVal(Head(s)) < 0 THEN None
  ELSE ParseDigits(Tail(s), acc * 10 + DigitVal(Head(s)))

\* the digits of u64::MAX
U64MaxDigits ==
  <<1, 8, 4, 4, 6, 7, 4, 4, 0, 7, 3, 7, 0, 9, 5, 5, 1, 6, 1, 5>>

RECURSIVE StripZeros(_)
StripZeros(s) ==
  IF Len(s) > 1 /\ Head(s) = "0" THEN StripZeros(Tail(s)) ELSE s

\* the number these digits write does not fit a u64
Overflows(s) ==
  LET d == StripZeros(s) IN
    \/ Len(d) > Len(U64MaxDigits)
    \/ /\ Len(d) = Len(U64MaxDigits)
       /\ \E i \in DOMAIN d :
            /\ DigitVal(d[i]) > U64MaxDigits[i]
            /\ \A j \in 1 .. i - 1 : DigitVal(d[j]) = U64MaxDigits[j]

\* s.parse::<u64>(): an optional '+', then one digit or more, of a number
\* that fits a u64
ParseU64(s) ==
  LET digits == IF s # <<>> /\ Head(s) = "+" THEN Tail(s) ELSE s
  IN  IF digits = <<>> THEN None
      ELSE IF \E i \in DOMAIN digits : DigitVal(digits[i]) < 0 THEN None
      ELSE IF Overflows(digits) THEN None
      ELSE ParseDigits(digits, 0)

\* the seconds of the header, as they are
ClampNot(seconds) == seconds

\* the seconds the post-response hook adds to now for a 429 with this header
Clamp(seconds) == IF seconds > MaxRetryAfter THEN MaxRetryAfter ELSE seconds

\* the header is there, is a string and parses: Retry-After: k
HasSeconds(hdr) ==
  /\ hdr # None
  /\ ToStrOk(Unwrap(hdr))
  /\ ParseU64(Unwrap(hdr)) # None

Seconds(hdr) == Unwrap(ParseU64(Unwrap(hdr)))

Delay(hdr) ==
  IF hdr = None THEN default_retry_after
  ELSE IF ~ToStrOk(Unwrap(hdr)) THEN default_retry_after
  ELSE IF ParseU64(Unwrap(hdr)) = None THEN default_retry_after
  ELSE Clamp(Unwrap(ParseU64(Unwrap(hdr))))

(***************************************************************************)
(* Fetch tasks.  pc is where the task is:                                  *)
(*   "enter"     RetryTooManyRequestsMiddleware::handle is about to read   *)
(*               retry_after                                               *)
(*   "sleep"     in tokio::time::sleep(duration), until wake               *)
(*   "clear"     about to write None to retry_after                        *)
(*   "acquire"   in MaxConcurrentMiddleware::handle, awaiting a permit     *)
(*   "transport" the request is with the transport                         *)
(*   "post"      a 429 came back, about to write retry_after               *)
(*   "backoff"   the retry layer sleeps before its next attempt            *)
(*   "body"      the response is with the visitor, which reads its text    *)
(*               and has parse_links run on it                             *)
(*   "done"      finished, res is "page", "error" or "panic"; page is the  *)
(*               Page of a "page"                                          *)
(*   "joined"    handed to crawl by join_next and gone from the JoinSet;   *)
(*               res keeps whether it was a "page" or "failed"             *)
(*   "dropped"   the runtime dropped the aborted task                      *)
(* seen is the Some(retry_after) the task read and is acting on, wake the   *)
(* end of its sleep, attempt the retries it has made, resp the 429         *)
(* response it is handling and when it came.                               *)
(***************************************************************************)
Live == {"enter", "sleep", "clear", "acquire", "transport", "post", "backoff", "body"}

NewTask(u) == [url |-> u, pc |-> "enter", res |-> "none", page |-> None,
               abort |-> FALSE, seen |-> None, wake |-> 0, attempt |-> 0,
               permit |-> FALSE,
               resp |-> NoResp]

TaskIds == DOMAIN tasks

SetPc(i, pc) == [tasks EXCEPT ![i].pc = pc]

\* what the slowdown middleware's next.run(req) is
AfterHook == IF limiter THEN "acquire" ELSE "transport"

InFlight == {i \in TaskIds : tasks[i].pc = "transport"}

(***************************************************************************)
(* RetryTooManyRequestsMiddleware::handle, before the request.             *)
(***************************************************************************)
\* a hook that takes every not-before it reads for stale
StaleAlways(t) == TRUE

\* retry_after.duration_since(now) is an Err: the not-before is over
Stale(t) == t < now

\* let retry_after = *self.retry_after.read().await, and what follows it
\* up to the next await
SlowdownRead(i) ==
  /\ tasks[i].pc = "enter"
  /\ tasks' =
       IF retry_after = None
         THEN SetPc(i, AfterHook)
         ELSE IF ~Stale(Unwrap(retry_after))
           THEN [tasks EXCEPT ![i].pc = "sleep", ![i].seen = retry_after,
                              ![i].wake = now + (Unwrap(retry_after) - now)]
           ELSE [tasks EXCEPT ![i].pc = "clear", ![i].seen = retry_after]
  /\ UNCHANGED <<config, doc, crawl, available, retry_after, now, hits, due>>

\* a sleep that is over as soon as it starts
SleepOverAtOnce(wake) == TRUE

\* a sleep that also waits for the not-before the state holds by now
SleepOverRereads(wake) ==
  now >= wake /\ (IsSome(retry_after) => now >= Unwrap(retry_after))

\* tokio::time::sleep(duration) is over
SleepOver(wake) == now >= wake

SleepDone(i) ==
  /\ tasks[i].pc = "sleep"
  /\ SleepOver(tasks[i].wake)
  /\ tasks' = [tasks EXCEPT ![i].pc = AfterHook, ![i].seen = None, ![i].wake = 0]
  /\ UNCHANGED <<config, doc, crawl, available, retry_after, now, hits, due>>

\* *self.retry_after.write().await = None
SlowdownClear(i) ==
  /\ tasks[i].pc = "clear"
  /\ retry_after' = None
  /\ tasks' = [tasks EXCEPT ![i].pc = AfterHook, ![i].seen = None]
  /\ UNCHANGED <<config, doc, crawl, available, now, hits, due>>

(***************************************************************************)
(* MaxConcurrentMiddleware::handle: acquire_owned().await, run the rest of *)
(* the chain, drop the permit.                                             *)
(***************************************************************************)
\* a semaphore that hands out a permit it does not have
CanAcquireAny(avail) == TRUE

CanAcquire(avail) == avail > 0

Acquire(i) ==
  /\ tasks[i].pc = "acquire"
  /\ CanAcquire(available)
  /\ available' = available - 1
  /\ tasks' = [tasks EXCEPT ![i].pc = "transport", ![i].permit = TRUE]
  /\ UNCHANGED <<config, doc, crawl, retry_after, now, hits, due>>

\* a permit that is not given back
ReleaseNothing(avail) == avail

\* a _permit that lives on after the limiter's handle has returned
PermitKept(held) == held

\* the task's _permit after drop(_permit)
PermitDropped(held) == FALSE

\* drop(_permit)
Release(avail) == IF limiter THEN avail + 1 ELSE avail

\* a retry layer that sits below the slowdown middleware
RetryEntryInner == AfterHook

\* where an attempt of the retry layer enters the chain: the retry layer is
\* outermost, its next.run is the slowdown middleware's handle
RetryEntry == "enter"

\* the retry layer retries a 429 or an error while retries are left
RetryLeft(attempt) == attempt < max_retries

(***************************************************************************)
(* The transport answers with r.  The permit is dropped and the result     *)
(* goes up the chain as far as the next await: a 200 reaches the visitor,  *)
(* a 429 stops in the slowdown middleware, which is to write retry_after,  *)
(* an error stops in the retry layer or, with no retry left, ends the task *)
(* with v: the visitor's Err ("error") or its unwrap ("panic").            *)
(***************************************************************************)
Respond(i, r, v) ==
  /\ tasks[i].pc = "transport"
  /\ available' = Release(available)
  /\ hits' = hits + 1
  /\ due' = IF r.status = 429 /\ HasSeconds(r.hdr)
              THEN [due EXCEPT
                      !.clamped = Max(due.clamped, now + Clamp(Seconds(r.hdr))),
                      !.raw = Max(due.raw, now + Seconds(r.hdr))]
              ELSE due
  /\ LET answered == [tasks EXCEPT ![i].permit = PermitDropped(@)]
     IN  tasks' =
           CASE r.status = 200 -> [answered EXCEPT ![i].pc = "body"]
             [] r.status = 429 ->
                  [answered EXCEPT ![i].pc = "post",
                                ![i].resp = [status |-> r.status, hdr |-> r.hdr,
                                             at |-> now]]
             [] OTHER -> IF RetryLeft(tasks[i].attempt)
                           THEN [answered EXCEPT ![i].pc = "backoff"]
                           ELSE [answered EXCEPT ![i].pc = "done", ![i].res = v]
  /\ UNCHANGED <<config, doc, crawl, retry_after, now>>

(***************************************************************************)
(* RetryTooManyRequestsMiddleware::handle, after a 429: retry_after is     *)
(* written, and the response goes up to the retry layer.                   *)
(***************************************************************************)
\* a deadline that is the instant the 429 is handled
NotBeforeNow(hdr) == Some(now)

\* a hook that keeps the stored not-before when it is the later one
NotBeforeLatest(hdr) ==
  IF IsSome(retry_after) /\ Unwrap(retry_after) > now + Delay(hdr)
    THEN retry_after
    ELSE Some(now + Delay(hdr))

\* Some(SystemTime::now() + Duration::from_secs(seconds)), or the default
NotBefore(hdr) == Some(now + Delay(hdr))

SlowdownPost(i) ==
  /\ tasks[i].pc = "post"
  /\ retry_after' = NotBefore(tasks[i].resp.hdr)
  /\ due' = [due EXCEPT !.stored = NotBefore(tasks[i].resp.hdr)]
  /\ tasks' = [tasks EXCEPT ![i].resp = NoResp,
                            ![i].pc = IF RetryLeft(tasks[i].attempt) THEN "backoff"
                                                                     ELSE "body"]
  /\ UNCHANGED <<config, doc, crawl, available, now, hits>>

\* The retry layer's sleep is over: the next attempt enters the chain.
RetryAgain(i) ==
  /\ tasks[i].pc = "backoff"
  /\ tasks' = [tasks EXCEPT ![i].pc = RetryEntry, ![i].attempt = @ + 1]
  /\ UNCHANGED <<config, doc, crawl, available, retry_after, now, hits, due>>

(***************************************************************************)
(* SiteVisitor::visit and Crawler::visit_and_parse, after the response.    *)
(***************************************************************************)
\* parse_links, as far as the crawl sees it: the page's url and its links;
\* what the server answers for a url that is no page of the site has no link.
parse_links(u) ==
  [url |-> u, links |-> IF u \in DOMAIN site THEN site[u] ELSE {}]

\* response.text().await, then spawn_blocking(parse_links) and Ok(result);
\* outcome "panic" is the unwrap of a body that could not be read.
ReadBody(i, outcome) ==
  /\ tasks[i].pc = "body"
  /\ tasks' = IF outcome = "ok"
                THEN [tasks EXCEPT ![i].pc = "done", ![i].res = "page",
                                   ![i].page = Some(parse_links(tasks[i].url))]
                ELSE [tasks EXCEPT ![i].pc = "done", ![i].res = outcome]
  /\ UNCHANGED <<config, doc, crawl, available, retry_after, now, hits, due>>

\* Time passes, to t.
Tick(t) ==
  /\ now < t
  /\ now' = t
  /\ UNCHANGED <<config, doc, crawl, available, retry_after, hits, due, tasks>>

(***************************************************************************)
(* Crawler::crawl, up to its loop: the seed is spawned if it may be        *)
(* visited.                                                                *)
(***************************************************************************)
Crawl(url) ==
  /\ cpc = "built"
  /\ seed' = Some(url)
  /\ start_time' = now
  /\ IF can_visit(url)
       THEN /\ visited' = {url}
            /\ tasks' = <<NewTask(url)>>
       ELSE UNCHANGED <<visited, tasks>>
  /\ cpc' = "loop"
  /\ UNCHANGED <<config, doc, available, retry_after, now, hits, due, stopped,
                 pages, page_count, sent, rx>>

(***************************************************************************)
(* The body of crawl's loop for one completed task.                        *)
(***************************************************************************)
\* a visited set that takes every link for new
NotVisitedAlways(vis, link) == TRUE

\* a visited set that takes no link for new
NotVisitedNever(vis, link) == FALSE

\* visited.insert(link): whether the link was not yet in the set
NotVisited(vis, link) == link \notin vis

\* a visited set that keeps no link
InsertNothing(vis, link) == vis

\* visited.insert(link): the set afterwards
Insert(vis, link) == vis \cup {link}

\* a loop over the links that spawns nothing
ExpandNone(links, vis, ts) == <<vis, ts>>

\* for link in recovered_links { ... }: <<visited, tasks>> after the loop
RECURSIVE Expand(_, _, _)
Expand(links, vis, ts) ==
  IF links = {} THEN <<vis, ts>>
  ELSE LET link == CHOOSE l \in links : \A m \in links : l <= m
           rest == links \ {link}
       IN  IF can_visit(link)
             THEN IF NotVisited(vis, link)
                    THEN Expand(rest, Insert(vis, link), Append(ts, NewTask(link)))
                    ELSE Expand(rest, Insert(vis, link), ts)
             ELSE Expand(rest, vis, ts)

\* a page limit compared with the count before this page
MaxPagesReachedLate(count) == Some(count) = max_pages

\* Some(page_count + 1) == self.max_pages
MaxPagesReached(count) == Some(count + 1) = max_pages

\* a time limit that is never found reached
MaxTimeReachedNever == FALSE

\* now.duration_since(start_time) is Ok(duration) and duration > max_time
MaxTimeReached ==
  /\ IsSome(max_time)
  /\ now >= start_time
  /\ now - start_time > Unwrap(max_time)

\* a JoinSet whose drop leaves its tasks running
AbortNone(ts) == ts

\* crawl returns and drops self: the JoinSet aborts every task still in it.
AbortAll(ts) ==
  [j \in DOMAIN ts |-> IF ts[j].pc # "joined" THEN [ts[j] EXCEPT !.abort = TRUE]
                                              ELSE ts[j]]

\* a channel whose send waits while a receiver is a full buffer behind
CanSendWithRoom(ch, receivers) ==
  \A r \in DOMAIN receivers :
    receivers[r].alive => Len(ch) - receivers[r].next + 1 < ChannelDepth

\* self.channel.send(..) is no await: crawl never waits for a receiver
CanSend(ch, receivers) == TRUE

\* a channel that takes nothing
BroadcastNothing(ch, page) == ch

\* self.channel.send(Arc::new(page.clone())): the page is the channel's next value
Broadcast(ch, page) == Append(ch, page)

\* a failure that ends the crawl
OnFailureReturn == "returned"

\* error!(..); continue: crawl is back at join_next
OnFailure == "loop"

JoinNext(i) ==
  /\ cpc = "loop"
  /\ tasks[i].pc = "done"
  /\ tasks[i].res = "page" => CanSend(sent, rx)
  /\ LET joined == [tasks EXCEPT ![i].pc = "joined", ![i].page = None,
                                  ![i].res = IF @ = "page" THEN "page" ELSE "failed"]
         page == Unwrap(tasks[i].page)
     IN  IF tasks[i].res # "page"
           THEN \* a failed fetch or a join error: log and continue
                /\ tasks' = joined
                /\ cpc' = OnFailure
                /\ UNCHANGED <<stopped, visited, pages, page_count, sent>>
           ELSE /\ sent' = Broadcast(sent, page)
                /\ pages' = Append(pages, page)
                /\ IF MaxPagesReached(page_count)
                     THEN /\ cpc' = "returned"
                          /\ stopped' = "max_pages"
                          /\ tasks' = AbortAll(joined)
                          /\ UNCHANGED <<visited, page_count>>
                     ELSE /\ page_count' = page_count + 1
                          /\ IF MaxTimeReached
                               THEN /\ cpc' = "returned"
                                    /\ stopped' = "max_time"
                                    /\ tasks' = AbortAll(joined)
                                    /\ UNCHANGED visited
                               ELSE /\ visited' = Expand(page.links, visited, joined)[1]
                                    /\ tasks' = Expand(page.links, visited, joined)[2]
                                    /\ UNCHANGED <<cpc, stopped>>
  /\ UNCHANGED <<config, doc, available, retry_after, now, hits, due, seed, start_time, rx>>

\* join_next() returns None: the task set is empty, crawl returns.
Drained ==
  /\ cpc = "loop"
  /\ \A i \in TaskIds : tasks[i].pc = "joined"
  /\ cpc' = "returned"
  /\ stopped' = "drained"
  /\ UNCHANGED <<config, doc, available, retry_after, now, hits, due, tasks, seed,
                 start_time, visited, pages, page_count, sent, rx>>

\* The runtime drops an aborted task, and with it the permit it holds; res
\* keeps whether it held one.
DropTask(i) ==
  /\ tasks[i].abort
  /\ tasks[i].pc \in Live \cup {"done"}
  /\ available' = IF tasks[i].pc = "transport" THEN Release(available) ELSE available
  /\ tasks' = [tasks EXCEPT ![i].pc = "dropped", ![i].permit = FALSE,
                            ![i].res = IF tasks[i].pc = "transport" THEN "held"
                                                                    ELSE @]
  /\ UNCHANGED <<config, doc, crawl, retry_after, now, hits, due>>

\* A second passes while the crawl runs.
MaxClock == MaxTimeCfg + 1

CrawlTick ==
  /\ cpc = "loop"
  /\ now < MaxClock
  /\ Tick(now + 1)

(***************************************************************************)
(* Spec: a crawl.  The crawler is built with any of the sites, policies    *)
(* and limits; the server answers 200 or fails, and the retry layer makes  *)
(* no retry.                                                               *)
(***************************************************************************)
Init ==
  /\ site \in Sites
  /\ robot \in Robots
  /\ max_pages \in {None} \cup {Some(m) : m \in 0 .. MaxPagesCfg}
  /\ max_time \in {None} \cup {Some(t) : t \in 0 .. MaxTimeCfg}
  /\ capacity \in {1, MaxPermits}
  /\ limiter = TRUE
  /\ max_retries = 0
  /\ default_retry_after = DefaultRetryAfterMain
  /\ available = capacity
  /\ retry_after = None
  /\ now = 0
  /\ hits = 0
  /\ due = [clamped |-> 0, raw |-> 0, stored |-> None]
  /\ tasks = <<>>
  /\ cpc = "built"
  /\ stopped = "no"
  /\ seed = None
  /\ start_time = 0
  /\ visited = {}
  /\ pages = <<>>
  /\ page_count = 0
  /\ sent = <<>>
  /\ rx = <<>>
  /\ doc = None

Next ==
  \/ \E url \in Seeds : Crawl(url)
  \/ \E i \in TaskIds : SlowdownRead(i)
  \/ \E i \in TaskIds : Acquire(i)
  \/ \E i \in TaskIds, r \in {R200, RErr}, v \in {"error", "panic"} : Respond(i, r, v)
  \/ \E i \in TaskIds, o \in {"ok", "panic"} : ReadBody(i, o)
  \/ \E i \in TaskIds : JoinNext(i)
  \/ Drained
  \/ \E i \in TaskIds : DropTask(i)
  \/ CrawlTick

Spec == Init /\ [][Next]_vars

(***************************************************************************)
(* SpecMw: NumWorkers concurrent requests through the chain of             *)
(* crawler_client; the server answers each with 200, an error, or 429      *)
(* with or without a Retry-After header.                                   *)
(***************************************************************************)
HeadersMw == {None, Some(<<"2">>)}

\* the retries the retry layer is built with: none, or one
RetriesMw == {0, 1}

InitMw ==
  /\ site = SiteChain
  /\ robot = None
  /\ max_pages = None
  /\ max_time = None
  /\ capacity \in {1, MaxPermits}
  /\ limiter = TRUE
  /\ max_retries \in RetriesMw
  /\ default_retry_after = DefaultRetryAfterTest
  /\ available = capacity
  /\ retry_after = None
  /\ now = 0
  /\ hits = 0
  /\ due = [clamped |-> 0, raw |-> 0, stored |-> None]
  /\ tasks = [i \in 1 .. NumWorkers |-> NewTask(0)]
  /\ cpc = "none"
  /\ stopped = "no"
  /\ seed = None
  /\ start_time = 0
  /\ visited = {}
  /\ pages = <<>>
  /\ page_count = 0
  /\ sent = <<>>
  /\ rx = <<>>
  /\ doc = None

NextMw ==
  \/ \E i \in TaskIds : SlowdownRead(i)
  \/ \E i \in TaskIds : SleepDone(i)
  \/ \E i \in TaskIds : SlowdownClear(i)
  \/ \E i \in TaskIds : SlowdownPost(i)
  \/ \E i \in TaskIds : RetryAgain(i)
  \/ \E i \in TaskIds : Acquire(i)
  \/ \E i \in TaskIds, r \in {R200, RErr} \cup {R429(h) : h \in HeadersMw} :
       Respond(i, r, "error")
  \/ now < MaxClockMw /\ Tick(now + 1)

SpecMw == InitMw /\ [][NextMw]_vars

(***************************************************************************)
(* SpecOne: the request of tests/middleware.rs.  The server answers the    *)
(* first request with 429 and a Retry-After header, every later one with   *)
(* 200.                                                                    *)
(***************************************************************************)
\* Retry-After: 18446744073709551616
TwoTo64 ==
  <<"1", "8", "4", "4", "6", "7", "4", "4", "0", "7",
    "3", "7", "0", "9", "5", "5", "1", "6", "1", "6">>

HeadersOne ==
  {None, Some(<<"0">>), Some(<<"1">>), Some(<<"6", "0">>), Some(<<"6", "1">>),
   Some(<<"+", "1">>), Some(<<"-", "1">>), Some(<<"1", "e-acute">>),
   Some(<<"W", "e", "d">>), Some(<<>>), Some(TwoTo64)}

\* the default waits the middleware is built with: the test's, and a longer one
DefaultsOne ==
  {DefaultRetryAfterTest, DefaultRetryAfterTest + 1, MaxRetryAfter + 1}

\* the instants the clock is read at
TimesOne ==
  (0 .. MaxSkew + 1) \cup (MaxRetryAfter - 1 .. MaxRetryAfter + MaxSkew + 1)

\* AlreadyHit::matches: the mock for count 0 answers 429, the one for 1, 200
Scripted(h) == IF hits = 0 THEN R429(h) ELSE R200

InitOne ==
  /\ site = SiteChain
  /\ robot = None
  /\ max_pages = None
  /\ max_time = None
  /\ capacity = 1
  /\ limiter = FALSE
  /\ max_retries \in 0 .. MaxRetries + 1
  /\ default_retry_after \in DefaultsOne
  /\ available = capacity
  /\ retry_after = None
  /\ now = 0
  /\ hits = 0
  /\ due = [clamped |-> 0, raw |-> 0, stored |-> None]
  /\ tasks = <<NewTask(0)>>
  /\ cpc = "none"
  /\ stopped = "no"
  /\ seed = None
  /\ start_time = 0
  /\ visited = {}
  /\ pages = <<>>
  /\ page_count = 0
  /\ sent = <<>>
  /\ rx = <<>>
  /\ doc = None

NextOne ==
  \/ \E i \in TaskIds : SlowdownRead(i)
  \/ \E i \in TaskIds : SleepDone(i)
  \/ \E i \in TaskIds : SlowdownClear(i)
  \/ \E i \in TaskIds : SlowdownPost(i)
  \/ \E i \in TaskIds : RetryAgain(i)
  \/ \E i \in TaskIds, h \in HeadersOne : Respond(i, Scripted(h), "error")
  \/ \E t \in TimesOne : Tick(t)

SpecOne == InitOne /\ [][NextOne]_vars

(***************************************************************************)
(* Properties of a crawl (Spec).                                           *)
(***************************************************************************)
\* the urls of the pages crawl returns
PageUrls == {pages[k].url : k \in 1 .. Len(pages)}

\* the urls reachable from the seed over links that may be visited
RECURSIVE ReachFrom(_)
ReachFrom(S) ==
  LET T == S \cup {l \in UNION {site[u] : u \in S} : can_visit(l)}
  IN  IF T = S THEN S ELSE ReachFrom(T)

Reachable ==
  IF IsSome(seed) /\ can_visit(Unwrap(seed)) THEN ReachFrom({Unwrap(seed)}) ELSE {}

\* every fetch the crawl started has succeeded
AllFetched == \A i \in TaskIds : tasks[i].res = "page"

\* no fetch has failed or crashed
NoneFailed == \A i \in TaskIds : tasks[i].res \notin {"failed", "error", "panic"}

\* C1: during one crawl at most one fetch task is ever spawned for a url,
\* whatever the link graph and the order in which the tasks complete.
SpawnedOnce ==
  \A i, j \in TaskIds : tasks[i].url = tasks[j].url => i = j

\* a crawl of the site where every page links to every page, self included,
\* has fetched three pages and drained
SpawnedOnceSeen ==
  /\ cpc = "returned"
  /\ stopped = "drained"
  /\ site = SiteFull
  /\ Len(pages) >= 3
  /\ Len(tasks) = Len(pages)

\* C2: with no max_pages, no max_time and every fetch succeeding, when crawl
\* returns the urls of its pages are exactly the urls reachable from the seed
\* over links that may be visited.
ReachedAll ==
  (cpc = "returned" /\ max_pages = None /\ max_time = None /\ AllFetched)
    => PageUrls = Reachable

\* such a crawl of the site of the test has returned three pages
ReachedAllSeen ==
  /\ cpc = "returned"
  /\ max_pages = None
  /\ max_time = None
  /\ AllFetched
  /\ site = SiteMonzo
  /\ Cardinality(PageUrls) >= 3

\* C3: with a robots policy, no url the policy disallows is fetched or is the
\* url of a page of the result, be it the seed or a discovered link.
RobotsObeyed ==
  IsSome(robot) =>
    /\ \A i \in TaskIds : RobotAllowed(Unwrap(robot), tasks[i].url)
    /\ \A u \in PageUrls : RobotAllowed(Unwrap(robot), u)
    /\ \A k \in 1 .. Len(sent) : RobotAllowed(Unwrap(robot), sent[k].url)

\* a crawl under a policy has returned a page that links to a disallowed url
RobotsObeyedSeen ==
  /\ cpc = "returned"
  /\ IsSome(robot)
  /\ \E k \in 1 .. Len(pages) :
       \E l \in pages[k].links : assume_html(l) /\ ~RobotAllowed(Unwrap(robot), l)

\* C4: for every max_pages M, 0 and 1 included, crawl returns at most M pages.
PagesAtMostMax ==
  (cpc = "returned" /\ IsSome(max_pages)) => Len(pages) <= Unwrap(max_pages)

PermitsBackOnReturn ==
  /\ available >= 0
  /\ cpc = "returned" => available = capacity

\* C7, as the code has it: the available permits are those not held by a
\* request in flight, never negative; all are available when crawl returns
\* from a drained task set, and after a stop once every aborted task has been
\* dropped.
PermitsAccounted ==
  /\ available >= 0
  /\ available = capacity - Cardinality(InFlight)
  /\ (cpc = "returned" /\ stopped = "drained") => available = capacity
  /\ (cpc = "returned" /\ \A i \in TaskIds : tasks[i].pc \in {"joined", "dropped"})
       => available = capacity

\* crawl stopped at max_pages while a request held a permit; the task was
\* dropped since, and every permit is back
PermitsAccountedSeen ==
  /\ cpc = "returned"
  /\ stopped = "max_pages"
  /\ \E i \in TaskIds : tasks[i].res = "held"
  /\ \A i \in TaskIds : tasks[i].pc \in {"joined", "dropped"}
  /\ available = capacity

\* C10: when crawl returns, every link of every page of the result is the
\* url of a page of the result or may not be visited; for every crawl.
ClosedAlways ==
  cpc = "returned" =>
    \A k \in 1 .. Len(pages) :
      \A l \in pages[k].links : l \in PageUrls \/ ~can_visit(l)

\* C10, as the code has it: the same, for a crawl that returned from a
\* drained task set with every fetch succeeding.
ClosedWhenAllFetched ==
  (cpc = "returned" /\ stopped = "drained" /\ AllFetched) =>
    \A k \in 1 .. Len(pages) :
      \A l \in pages[k].links : l \in PageUrls \/ ~can_visit(l)

\* such a crawl has returned pages with a link that was followed and a link
\* that may not be visited
ClosedWhenAllFetchedSeen ==
  /\ cpc = "returned"
  /\ stopped = "drained"
  /\ AllFetched
  /\ Len(pages) >= 2
  /\ \E k \in 1 .. Len(pages) :
       /\ \E l \in pages[k].links : ~can_visit(l)
       /\ \E l \in pages[k].links : can_visit(l) /\ l # pages[k].url

(***************************************************************************)
(* Properties of the middleware chain (SpecMw).                            *)
(***************************************************************************)
\* C6: with a limiter of capacity N, the requests between the acquisition
\* of a permit and its release are at most N at every instant.
InFlightBounded == Cardinality(InFlight) <= capacity

\* every permit is taken and a further request waits for one
InFlightBoundedSeen ==
  /\ Cardinality(InFlight) = capacity
  /\ available = 0
  /\ \E i \in TaskIds : tasks[i].pc = "acquire"

\* a request goes to the transport in this step
Issued(i) == tasks[i].pc # "transport" /\ tasks'[i].pc = "transport"

\* C8: after a 429 with Retry-After: k received at r, no request of any
\* worker is issued before r + min(k, 60), the workers that were past the
\* hook or waiting for a permit included.
NoRequestBeforeDeadline ==
  [][\A i \in TaskIds : Issued(i) => now >= due.clamped]_vars

\* C8, as the code has it: the deadline stored for a 429 is no earlier than
\* the time it was received plus min(k, 60) (or the default); a worker that
\* enters the hook passes at once only when no deadline is stored, and one
\* that read a deadline does not pass the hook before it.
HookHonoursDeadline ==
  [][\A i \in TaskIds :
       /\ (tasks[i].pc = "post" /\ tasks'[i].pc # "post") =>
            /\ IsSome(retry_after')
            /\ Unwrap(retry_after') >= tasks[i].resp.at + Delay(tasks[i].resp.hdr)
       /\ (tasks[i].pc = "enter" /\ tasks'[i].pc = AfterHook) => retry_after = None
       /\ (tasks[i].pc \in {"sleep", "clear"} /\ tasks'[i].pc = AfterHook) =>
            now >= Unwrap(tasks[i].seen)]_vars

\* a worker has slept until the deadline of another worker's 429 with
\* Retry-After: 2
HookHonoursDeadlineSeen ==
  \E i \in TaskIds :
    /\ tasks[i].pc = "sleep"
    /\ tasks[i].attempt = 0
    /\ tasks[i].seen = Some(due.clamped)
    /\ due.clamped >= 2
    /\ now >= tasks[i].wake

JoinsFailure(i) ==
  tasks[i].pc = "done" /\ tasks[i].res # "page" /\ tasks'[i].pc = "joined"

\* C11: when the fetch of u fails or its task crashes, crawl goes on with
\* its loop, nothing is broadcast or recorded for u, pages, visited and
\* page_count are unchanged and no task is spawned; u is not spawned again.
FailureIsolated ==
  [][/\ \A i \in TaskIds :
          JoinsFailure(i) =>
            /\ cpc' = "loop"
            /\ UNCHANGED <<pages, visited, page_count, sent>>
            /\ Len(tasks') = Len(tasks)
            /\ tasks[i].url \in visited
     /\ \A i \in TaskIds :
          tasks[i].res = "failed" =>
            /\ tasks[i].url \notin PageUrls
            /\ \A j \in DOMAIN tasks' : tasks'[j].url = tasks[i].url => j = i]_vars

\* a fetch failed, and crawl went on to record a page that links to its url
FailureIsolatedSeen ==
  \E i \in TaskIds :
    /\ tasks[i].res = "failed"
    /\ \E k \in 1 .. Len(pages) :
         /\ tasks[i].url \in pages[k].links
         /\ \E j \in TaskIds : j > i /\ tasks[j].url = pages[k].url /\ tasks[j].pc = "joined"

(***************************************************************************)
(* SpecLive: a crawl through the chain of crawler_client with one permit,  *)
(* against a server that answers 200 or fails, and may answer its first    *)
(* request with 429 and no Retry-After header, on a runtime that does not  *)
(* stop while there is something to run: a task that can take its next     *)
(* step, a request the transport can answer, a permit a waiting task can   *)
(* take, a sleep that time can end, a result crawl can take from           *)
(* join_next.                                                              *)
(***************************************************************************)
\* the server may ask for a slowdown in its first answer, as the test's does
AnswersLive == IF hits = 0 THEN {R200, RErr, R429(None)} ELSE {R200, RErr}

\* a second passes while a task sleeps or the stored deadline is not over
SleepTick ==
  /\ \/ \E i \in TaskIds : tasks[i].pc = "sleep" /\ ~SleepOver(tasks[i].wake)
     \/ IsSome(retry_after) /\ now <= Unwrap(retry_after)
  /\ cpc = "loop"
  /\ Tick(now + 1)

InitLive ==
  /\ site \in Sites
  /\ robot \in Robots
  /\ max_pages \in {None, Some(MaxPagesCfg)}
  /\ max_time = None
  /\ capacity = 1
  /\ limiter = TRUE
  /\ max_retries = 0
  /\ default_retry_after = DefaultRetryAfterTest
  /\ available = capacity
  /\ retry_after = None
  /\ now = 0
  /\ hits = 0
  /\ due = [clamped |-> 0, raw |-> 0, stored |-> None]
  /\ tasks = <<>>
  /\ cpc = "built"
  /\ stopped = "no"
  /\ seed = None
  /\ start_time = 0
  /\ visited = {}
  /\ pages = <<>>
  /\ page_count = 0
  /\ sent = <<>>
  /\ rx = <<>>
  /\ doc = None

\* the runtime runs a task or crawl, the transport answers, or time passes
Run ==
  \/ \E i \in TaskIds : SlowdownRead(i)
  \/ \E i \in TaskIds : SleepDone(i)
  \/ \E i \in TaskIds : SlowdownClear(i)
  \/ \E i \in TaskIds : SlowdownPost(i)
  \/ \E i \in TaskIds : Acquire(i)
  \/ \E i \in TaskIds, r \in AnswersLive : Respond(i, r, "error")
  \/ \E i \in TaskIds, o \in {"ok", "panic"} : ReadBody(i, o)
  \/ \E i \in TaskIds : JoinNext(i)
  \/ Drained
  \/ SleepTick

NextLive ==
  \/ \E url \in Seeds : Crawl(url)
  \/ Run
  \/ \E i \in TaskIds : DropTask(i)

Fairness == WF_vars(Run)

SpecLive == InitLive /\ [][NextLive]_vars /\ Fairness

\* C12: on a finite link graph, when every spawned fetch task eventually
\* completes, crawl eventually returns.
CrawlReturns == (cpc = "loop") ~> (cpc = "returned")

\* a crawl with one permit spawned three tasks, one of which failed, and
\* returned when the task set had drained
CrawlReturnsSeen ==
  /\ cpc = "returned"
  /\ stopped = "drained"
  /\ capacity = 1
  /\ Len(tasks) >= 3
  /\ \E i \in TaskIds : tasks[i].res = "failed"

\* C13: every page recorded in AllPages is sent on the channel exactly once,
\* with the links extracted from it, and no page is sent that is not
\* recorded; the page that triggers a max_pages or max_time stop included.
SentOncePerPage ==
  /\ sent = pages
  /\ \A k \in 1 .. Len(sent) : sent[k] = parse_links(sent[k].url)
  /\ \A k, l \in 1 .. Len(sent) : sent[k].url = sent[l].url => k = l

\* crawl stopped at the second page, which links to a url that may be
\* visited, and sent it
SentOncePerPageSeen ==
  /\ cpc = "returned"
  /\ stopped \in {"max_pages", "max_time"}
  /\ Len(pages) = 2
  /\ sent[2] = pages[2]
  /\ \E l \in sent[2].links : can_visit(l)

(***************************************************************************)
(* SpecSub: a crawl with subscribers.  Receivers are made before crawl is  *)
(* called (crawl consumes the Crawler); each reads at its own pace, or not *)
(* at all, and may be dropped at any time.                                 *)
(***************************************************************************)
\* Crawler::subscribe: a receiver of the values sent from now on
Subscribe ==
  /\ cpc = "built"
  /\ Len(rx) < NumReceivers
  /\ rx' = Append(rx, [alive |-> TRUE, next |-> Len(sent) + 1, lost |-> 0])
  /\ UNCHANGED <<config, doc, available, retry_after, now, hits, due, tasks, cpc,
                 stopped, seed, start_time, visited, pages, page_count, sent>>

\* the position in sent of the oldest value the channel still holds
Oldest == Max(1, Len(sent) - ChannelDepth + 1)

\* rx.recv(): the next value, or Lagged(n) and a jump to the oldest value held
Recv(r) ==
  /\ rx[r].alive
  /\ rx[r].next <= Len(sent)
  /\ rx' = IF rx[r].next < Oldest
             THEN [rx EXCEPT ![r].next = Oldest, ![r].lost = @ + (Oldest - rx[r].next)]
             ELSE [rx EXCEPT ![r].next = @ + 1]
  /\ UNCHANGED <<config, doc, available, retry_after, now, hits, due, tasks, cpc,
                 stopped, seed, start_time, visited, pages, page_count, sent>>

\* the receiver is dropped, and what it held with it
DropRx(r) ==
  /\ rx[r].alive
  /\ rx' = [rx EXCEPT ![r] = [alive |-> FALSE, next |-> 0, lost |-> 0]]
  /\ UNCHANGED <<config, doc, available, retry_after, now, hits, due, tasks, cpc,
                 stopped, seed, start_time, visited, pages, page_count, sent>>

InitSub ==
  /\ site \in Sites
  /\ robot = None
  /\ max_pages \in {None, Some(MaxPagesCfg)}
  /\ max_time = None
  /\ capacity = MaxPermits
  /\ limiter = TRUE
  /\ max_retries = 0
  /\ default_retry_after = DefaultRetryAfterMain
  /\ available = capacity
  /\ retry_after = None
  /\ now = 0
  /\ hits = 0
  /\ due = [clamped |-> 0, raw |-> 0, stored |-> None]
  /\ tasks = <<>>
  /\ cpc = "built"
  /\ stopped = "no"
  /\ seed = None
  /\ start_time = 0
  /\ visited = {}
  /\ pages = <<>>
  /\ page_count = 0
  /\ sent = <<>>
  /\ rx = <<>>
  /\ doc = None

NextSub ==
  \/ Subscribe
  \/ \E r \in DOMAIN rx : Recv(r)
  \/ \E r \in DOMAIN rx : DropRx(r)
  \/ \E url \in Seeds : Crawl(url)
  \/ \E i \in TaskIds : SlowdownRead(i)
  \/ \E i \in TaskIds : Acquire(i)
  \/ \E i \in TaskIds, r \in {R200, RErr} : Respond(i, r, "error")
  \/ \E i \in TaskIds : ReadBody(i, "ok")
  \/ \E i \in TaskIds : JoinNext(i)
  \/ Drained
  \/ \E i \in TaskIds : DropTask(i)

SpecSub == InitSub /\ [][NextSub]_vars

\* there is no receiver, or every receiver is dropped or a full buffer behind
NoneKeepsUp ==
  \A r \in DOMAIN rx : rx[r].alive => Len(sent) - rx[r].next + 1 >= ChannelDepth

\* C14: crawl does not depend on its subscribers: with no receiver, a
\* dropped one or one that does not read, crawl takes every completed task
\* at once, every recorded page was sent, and the pages recorded are those
\* of a crawl without subscribers; a receiver that fell behind the channel's
\* depth loses values.
SubscribersIgnored ==
  /\ sent = pages
  /\ (cpc = "loop" /\ NoneKeepsUp) =>
       \A i \in TaskIds : tasks[i].pc = "done" => ENABLED JoinNext(i)
  /\ (cpc = "returned" /\ max_pages = None /\ AllFetched) => PageUrls = Reachable
  /\ \A r \in DOMAIN rx :
       rx[r].alive =>
         /\ rx[r].next <= Len(sent) + 1
         /\ rx[r].lost <= rx[r].next - 1
         /\ rx[r].lost > 0 => Len(sent) > ChannelDepth

\* crawl returned three pages from a drained task set while its receiver,
\* reading late, lost one of them
SubscribersIgnoredSeen ==
  /\ cpc = "returned"
  /\ stopped = "drained"
  /\ Len(pages) >= 3
  /\ \E r \in DOMAIN rx : rx[r].alive /\ rx[r].lost > 0

\* the seed is disallowed by the robots policy or is taken for no html
SeedRejected ==
  /\ IsSome(seed)
  /\ \/ ~assume_html(Unwrap(seed))
     \/ IsSome(robot) /\ ~RobotAllowed(Unwrap(robot), Unwrap(seed))

\* C15: when the seed may not be fetched, crawl spawns no task, no request
\* is made, and crawl returns no page.
RejectedSeedNoFetch ==
  SeedRejected =>
    /\ tasks = <<>>
    /\ hits = 0
    /\ visited = {}
    /\ pages = <<>>
    /\ sent = <<>>
    /\ cpc = "loop" => ENABLED Drained

\* crawl has returned for a seed the robots policy disallows
RejectedSeedNoFetchSeen ==
  /\ cpc = "returned"
  /\ IsSome(seed)
  /\ assume_html(Unwrap(seed))
  /\ IsSome(robot)
  /\ ~RobotAllowed(Unwrap(robot), Unwrap(seed))
  /\ pages = <<>>

\* more than max_time has passed since crawl started
OverTime == IsSome(max_time) /\ now - start_time > Unwrap(max_time)

\* C16: once more than max_time has passed since the start, the next
\* completed task that crawl takes, whatever its outcome, makes crawl
\* return (at once, or because it was the last of the task set), and no
\* task is spawned from then on.
ReturnsAtNextJoinOverTime ==
  [][(cpc = "loop" /\ OverTime) =>
       /\ Len(tasks') = Len(tasks)
       /\ \A i \in TaskIds :
            (tasks[i].pc = "done" /\ tasks'[i].pc = "joined") =>
              \/ cpc' = "returned"
              \/ \A j \in DOMAIN tasks' : tasks'[j].pc = "joined"]_vars

\* ------------------------------------------------------------------
\* parse_links on the hrefs of a page (parser.rs).  An href is the
\* sequence of the pieces of its text: a scheme, "://", a host, a path,
\* "#" and a fragment name.  A Url is what url::Url keeps of it.
\* ------------------------------------------------------------------

\* the most anchors of a parsed page
MaxAnchors == 2

SpecialSchemes == {"https", "http", "ftp"}
Domains == {"monzo.com", "notmonozo.com", "sudomain.monzo.com"}
Ips == {"10.0.0.1", "10.0.0.2"}
PathTokens == {"/", "/hi", "/nested-deeper", "/fragments-not-unique", "/opps"}

MkUrl(scheme, host, path, fragment) ==
  [scheme |-> scheme, host |-> host, path |-> path, fragment |-> fragment]

\* href.starts_with('#') and href.starts_with('/')
StartsWithHash(href) == href # <<>> /\ href[1] = "#"
StartsWithSlash(href) == href # <<>> /\ href[1] \in PathTokens \cup {"//"}

\* the position of the first '#' of an href, 0 when it has none
HashAt(href) ==
  IF \E i \in DOMAIN href : href[i] = "#"
    THEN CHOOSE i \in DOMAIN href :
           href[i] = "#" /\ \A j \in 1..(i - 1) : href[j] # "#"
    ELSE 0

BeforeHash(href) ==
  IF HashAt(href) = 0 THEN href ELSE SubSeq(href, 1, HashAt(href) - 1)

FragmentOf(href) ==
  IF HashAt(href) = 0 THEN None
    ELSE Some(SubSeq(href, HashAt(href) + 1, Len(href)))

\* a host followed by nothing (the path is then "/") or by a path
IsAuthority(rest) ==
  /\ Len(rest) \in {1, 2}
  /\ rest[1] \in Domains \cup Ips
  /\ Len(rest) = 2 => rest[2] \in PathTokens

PathAfterHost(rest) == IF Len(rest) = 2 THEN rest[2] ELSE "/"

\* Url::parse(href): None for an href that is no absolute URL
UrlParse(href) ==
  LET body == BeforeHash(href) IN
    IF /\ Len(body) >= 3
       /\ body[1] \in SpecialSchemes
       /\ body[2] = "://"
       /\ IsAuthority(SubSeq(body, 3, Len(body)))
      THEN Some(MkUrl(body[1], Some(body[3]),
                      PathAfterHost(SubSeq(body, 3, Len(body))),
                      FragmentOf(href)))
    ELSE IF Len(body) = 3 /\ body[1] = "mailto" /\ body[2] = ":"
      THEN Some(MkUrl("mailto", None, body[3], FragmentOf(href)))
    ELSE None

\* page_url.join(href) for an href that starts with '/'
UrlJoin(page_url, href) ==
  LET body == BeforeHash(href) IN
    IF body[1] = "//"
      THEN IF IsAuthority(Tail(body))
             THEN Some(MkUrl(page_url.scheme, Some(body[2]),
                             PathAfterHost(Tail(body)), FragmentOf(href)))
             ELSE None
    ELSE IF Len(body) = 1
      THEN Some(MkUrl(page_url.scheme, page_url.host, body[1],
                      FragmentOf(href)))
    ELSE None

Resolve(page_url, href) ==
  IF StartsWithSlash(href) THEN UrlJoin(page_url, href) ELSE UrlParse(href)

\* Url::domain: None for a URL without a host or with an IP address
domain(url) ==
  IF IsSome(url.host) /\ Unwrap(url.host) \in Domains THEN url.host
    ELSE None

SetFragmentKept(url) == url

\* url.set_fragment(None)
SetFragmentNone(url) == [url EXCEPT !.fragment = None]

\* the links of a page, from the hrefs of its anchors
ParseLinks(page_url, anchors) ==
  LET with_href == {i \in DOMAIN anchors : IsSome(anchors[i])}
      hrefs == {Unwrap(anchors[i]) : i \in with_href}
      no_hash == {h \in hrefs : ~StartsWithHash(h)}
      resolved == {Resolve(page_url, h) : h \in no_hash} \ {None}
      same_domain ==
        {Unwrap(r) : r \in {s \in resolved :
                              domain(Unwrap(s)) = domain(page_url)}}
      http_s == {u \in same_domain : u.scheme \in {"https", "http"}}
  IN  {SetFragmentNone(u) : u \in http_s}

\* the anchors of test_link_parser, and the links it expects
TestUrl == MkUrl("https", Some("monzo.com"), "/", None)

TestAnchors ==
  << Some(<<"https", "://", "monzo.com", "/hi">>),
     Some(<<"http", "://", "monzo.com", "/hi">>),
     Some(<<"ftp", "://", "monzo.com", "/hi">>),
     Some(<<"/nested-deeper">>),
     Some(<<"/nested-deeper">>),
     Some(<<"/fragments-not-unique", "#", "first">>),
     Some(<<"/fragments-not-unique", "#", "second">>),
     Some(<<"https", "://", "notmonozo.com", "/opps">>),
     Some(<<"https", "://", "sudomain.monzo.com", "/hi">>) >>

TestExpected ==
  { MkUrl("https", Some("monzo.com"), "/hi", None),
    MkUrl("http", Some("monzo.com"), "/hi", None),
    MkUrl("https", Some("monzo.com"), "/nested-deeper", None),
    MkUrl("https", Some("monzo.com"), "/fragments-not-unique", None) }

\* hrefs a page may hold besides those of the test
OtherHrefs ==
  { <<>>,
    <<"#", "second">>,
    <<"about">>,
    <<"//", "notmonozo.com", "/hi">>,
    <<"https", "://", "monzo.com">>,
    <<"https", "://", "monzo.com", "/hi", "#", "first">>,
    <<"http", "://", "10.0.0.2", "/hi">>,
    <<"mailto", ":", "hi@monzo.com">> }

\* an anchor: its href, None for an anchor without the attribute
Anchors ==
  {None} \cup {TestAnchors[i] : i \in DOMAIN TestAnchors}
         \cup {Some(h) : h \in OtherHrefs}

AnchorSeqs ==
  UNION {[1..n -> Anchors] : n \in 0..MaxAnchors} \cup {TestAnchors}

PageUrlsParsed == {TestUrl, MkUrl("http", Some("10.0.0.1"), "/", None)}

InitParse ==
  /\ site = SiteChain
  /\ robot = None
  /\ max_pages = None
  /\ max_time = None
  /\ capacity = MaxPermits
  /\ limiter = TRUE
  /\ max_retries = 0
  /\ default_retry_after = DefaultRetryAfterMain
  /\ available = MaxPermits
  /\ retry_after = None
  /\ now = 0
  /\ hits = 0
  /\ due = [clamped |-> 0, raw |-> 0, stored |-> None]
  /\ tasks = <<>>
  /\ cpc = "built"
  /\ stopped = "no"
  /\ seed = None
  /\ start_time = 0
  /\ visited = {}
  /\ pages = <<>>
  /\ page_count = 0
  /\ sent = <<>>
  /\ rx = <<>>
  /\ \E u \in PageUrlsParsed, a \in AnchorSeqs :
       doc = [url |-> u, anchors |-> a, links |-> None]

\* parse_links(&page)
ParsePage ==
  /\ doc.links = None
  /\ doc' = [doc EXCEPT !.links = Some(ParseLinks(doc.url, doc.anchors))]
  /\ UNCHANGED <<config, crawl, available, retry_after, now, hits, due, tasks>>

NextParse == ParsePage

SpecParse == InitParse /\ [][NextParse]_vars

\* the hrefs of the parsed page that pass every filter of parse_links
Kept(href) ==
  /\ ~StartsWithHash(href)
  /\ IF StartsWithSlash(href) THEN UrlJoin(doc.url, href) # None
                              ELSE UrlParse(href) # None
  /\ LET u == Unwrap(Resolve(doc.url, href)) IN
       /\ u.scheme \in {"http", "https"}
       /\ domain(u) = domain(doc.url)

\* C17: the links of a parsed page are the URLs, without their fragment,
\* of the hrefs of its anchors that do not start with '#', that resolve
\* ('/'-prefixed joined to the page URL, others parsed as absolute), that
\* are http or https and that carry the domain of the page; each such
\* href gives a link, and the page of test_link_parser gives its four.
LinksAreKeptHrefs ==
  (doc # None /\ IsSome(doc.links)) =>
    LET links == Unwrap(doc.links)
        hrefs == {Unwrap(doc.anchors[i]) :
                    i \in {j \in DOMAIN doc.anchors : IsSome(doc.anchors[j])}}
    IN  /\ \A l \in links :
             /\ l.fragment = None
             /\ l.scheme \in {"http", "https"}
             /\ domain(l) = domain(doc.url)
             /\ \E h \in hrefs :
                  /\ Kept(h)
                  /\ [Unwrap(Resolve(doc.url, h)) EXCEPT !.fragment = None] = l
        /\ \A h \in hrefs :
             Kept(h) =>
               [Unwrap(Resolve(doc.url, h)) EXCEPT !.fragment = None] \in links
        /\ Cardinality(links) <= Len(doc.anchors)
        /\ (doc.url = TestUrl /\ doc.anchors = TestAnchors) =>
             links = TestExpected

\* two anchors that differ in their fragment only gave one link
LinksAreKeptHrefsSeen ==
  /\ doc # None
  /\ IsSome(doc.links)
  /\ Len(doc.anchors) = 2
  /\ IsSome(doc.anchors[1])
  /\ IsSome(doc.anchors[2])
  /\ FragmentOf(Unwrap(doc.anchors[1])) # FragmentOf(Unwrap(doc.anchors[2]))
  /\ Kept(Unwrap(doc.anchors[1]))
  /\ Kept(Unwrap(doc.anchors[2]))
  /\ Cardinality(Unwrap(doc.links)) = 1

\* ------------------------------------------------------------------
\* Crawls started from a url of any path: the pages of the site of
\* MockUrlVisitor, and urls whose path is "/p" and a text of up to
\* MaxPathLen characters, which are no page of the site.
\* ------------------------------------------------------------------

\* the most characters after "/p" in the path of a seed
MaxPathLen == 5

RECURSIVE Pow(_, _)
Pow(b, e) == IF e = 0 THEN 1 ELSE b * Pow(b, e - 1)

\* the urls whose path is "/p" and a text of 0 .. MaxPathLen characters
PathSeeds ==
  4 .. 3 + (Pow(Len(PathChars), MaxPathLen + 1) - 1) \div (Len(PathChars) - 1)

PHtml == CHOOSE u \in PathSeeds : Path(u) = <<"/", "p", ".", "h", "t", "m", "l">>

\* no policy, and one that disallows /about, /p and /p.html
RobotsPath == {None, Some({1, 4, PHtml})}

InitPath ==
  /\ site = SiteMonzo
  /\ robot \in RobotsPath
  /\ max_pages = None
  /\ max_time = None
  /\ capacity = MaxPermits
  /\ limiter = TRUE
  /\ max_retries = 0
  /\ default_retry_after = DefaultRetryAfterMain
  /\ available = capacity
  /\ retry_after = None
  /\ now = 0
  /\ hits = 0
  /\ due = [clamped |-> 0, raw |-> 0, stored |-> None]
  /\ tasks = <<>>
  /\ cpc = "built"
  /\ stopped = "no"
  /\ seed = None
  /\ start_time = 0
  /\ visited = {}
  /\ pages = <<>>
  /\ page_count = 0
  /\ sent = <<>>
  /\ rx = <<>>
  /\ doc = None

NextPath ==
  \/ cpc = "built" /\ \E url \in Seeds \cup PathSeeds : Crawl(url)
  \/ \E i \in TaskIds : SlowdownRead(i)
  \/ \E i \in TaskIds : Acquire(i)
  \/ \E i \in TaskIds, r \in {R200, RErr} : Respond(i, r, "error")
  \/ \E i \in TaskIds : ReadBody(i, "ok")
  \/ \E i \in TaskIds : JoinNext(i)
  \/ Drained

SpecPath == InitPath /\ [][NextPath]_vars

\* a path without '.', or one whose text after its last '.' is "html"
HtmlPath(path) ==
  \/ \A i \in DOMAIN path : path[i] # "."
  \/ \E i \in DOMAIN path :
       /\ path[i] = "."
       /\ Len(path) = i + 4
       /\ path[i + 1] = "h" /\ path[i + 2] = "t"
       /\ path[i + 3] = "m" /\ path[i + 4] = "l"

\* may_fetch as stated: assume_html alone without a policy, assume_html
\* and the policy's consent with one
MayFetch(u) ==
  HtmlPath(Path(u)) /\ (IsSome(robot) => u \notin Unwrap(robot))

IsNumeral(s) ==
  LET digits == IF s # <<>> /\ Head(s) = "+" THEN Tail(s) ELSE s
  IN  digits # <<>> /\ \A i \in DOMAIN digits : DigitVal(digits[i]) >= 0

\* min(k, 60) for the integer k that a numeral writes
MinWith60(s) ==
  LET d == StripZeros(IF Head(s) = "+" THEN Tail(s) ELSE s)
  IN  IF Len(d) > 2 THEN 60
      ELSE IF Unwrap(ParseDigits(d, 0)) > 60 THEN 60
      ELSE Unwrap(ParseDigits(d, 0))

\* the delay stated for a 429 with this header
StatedDelay(hdr) ==
  IF hdr # None /\ ToStrOk(Unwrap(hdr)) /\ IsNumeral(Unwrap(hdr))
    THEN MinWith60(Unwrap(hdr))
    ELSE default_retry_after

\* C19: the post-response hook of a 429 stores now + d as not-before, with
\* d = min(k, 60) for a Retry-After header that is a non-negative integer
\* k, and d the configured default for a header that is absent, not ASCII
\* or no non-negative integer.
StoresNowPlusDelay ==
  [][\A i \in TaskIds :
       (tasks[i].pc = "post" /\ tasks'[i].pc # "post") =>
         retry_after' = Some(now + StatedDelay(tasks[i].resp.hdr))]_vars

\* C20: once a post-response hook has stored a not-before T that is still
\* ahead, and no later 429 has stored another, a fetch attempt that enters
\* the pre-request hook reads T, and one that read T does not pass to the
\* inner chain before T.
LaterHooksObserve ==
  [][\A i \in TaskIds :
       /\ ( /\ tasks[i].pc = "enter"
            /\ tasks'[i].pc # "enter"
            /\ IsSome(due.stored)
            /\ Unwrap(due.stored) > now ) =>
              /\ tasks'[i].seen = due.stored
              /\ tasks'[i].pc = "sleep"
       /\ (tasks[i].pc = "sleep" /\ tasks'[i].pc = AfterHook) =>
            now >= Unwrap(tasks[i].seen)]_vars

\* C21: the pre-request hook writes None only over the stale not-before
\* that it read; a not-before that another worker's post-response hook
\* stored after the read is left as it is.
ClearsOnlyWhatItRead ==
  [][\A i \in TaskIds :
       (tasks[i].pc = "clear" /\ tasks'[i].pc # "clear") =>
         IF retry_after = tasks[i].seen THEN retry_after' = None
                                         ELSE retry_after' = retry_after]_vars

\* the wait of a task that the read of the pre-request hook sends to sleep
WaitOf(i) == tasks'[i].wake - now

\* C22: a wait in the pre-request hook never exceeds 60 seconds, whatever
\* the Retry-After header and the configured default.
WaitAtMost60 ==
  [][\A i \in TaskIds :
       (tasks[i].pc = "enter" /\ tasks'[i].pc = "sleep") =>
         WaitOf(i) <= MaxRetryAfter]_vars

\* C22, as the code has it: a wait never exceeds the larger of 60 seconds
\* and the configured default.
WaitAtMost60OrDefault ==
  [][\A i \in TaskIds :
       (tasks[i].pc = "enter" /\ tasks'[i].pc = "sleep") =>
         WaitOf(i) <= Max(MaxRetryAfter, default_retry_after)]_vars

\* a task waits for more than 60 seconds after a 429 without Retry-After
WaitAtMost60OrDefaultSeen ==
  /\ default_retry_after > MaxRetryAfter
  /\ \E i \in TaskIds :
       /\ tasks[i].pc = "sleep"
       /\ tasks[i].wake - now > MaxRetryAfter

\* the tasks that hold a permit of the limiter
Holders == {i \in TaskIds : tasks[i].permit}

\* C23: in the chain Retry, Slowdown, Limiter, Transport a task holds a
\* permit only between the end of the pre-request hook and the start of
\* the post-response hook, never while it sleeps on a slowdown or writes
\* the slowdown state; workers that all sleep on a slowdown leave every
\* permit available.
NoPermitInHook ==
  /\ \A i \in Holders : tasks[i].pc = "transport"
  /\ available = capacity - Cardinality(Holders)
  /\ (\A i \in TaskIds : tasks[i].pc = "sleep") => available = capacity

\* every worker sleeps on a slowdown, after requests that held permits
NoPermitInHookSeen ==
  /\ \A i \in TaskIds : tasks[i].pc = "sleep"
  /\ capacity = MaxPermits
  /\ available = capacity
  /\ hits >= NumWorkers

\* C24: a task starts its backoff sleep without a permit, the permit of
\* the failed attempt given back; the retry runs the pre-request hook
\* again, which reads the slowdown state as every attempt does, and it
\* goes to the transport only through the acquisition of a permit.
RetryFromTop ==
  [][\A i \in TaskIds :
       /\ (tasks[i].pc # "backoff" /\ tasks'[i].pc = "backoff") =>
            /\ ~tasks'[i].permit
            /\ tasks[i].permit => available' = available + 1
       /\ (tasks[i].pc = "backoff" /\ tasks'[i].pc # "backoff") =>
            /\ tasks'[i].pc = "enter"
            /\ tasks'[i].attempt = tasks[i].attempt + 1
            /\ ~tasks'[i].permit
            /\ available' = available
       /\ (tasks[i].attempt > 0 /\ tasks[i].pc = "enter"
             /\ tasks'[i].pc # "enter") =>
            /\ retry_after = None => tasks'[i].pc = "acquire"
            /\ retry_after # None =>
                 /\ tasks'[i].seen = retry_after
                 /\ tasks'[i].pc \in {"sleep", "clear"}
       /\ (tasks[i].attempt > 0 /\ tasks[i].pc # "transport"
             /\ tasks'[i].pc = "transport") =>
            /\ tasks[i].pc = "acquire"
            /\ ~tasks[i].permit
            /\ tasks'[i].permit
            /\ available' = available - 1]_vars

\* a retry sleeps on the slowdown it read, holding no permit, while the
\* other worker's request is in flight
RetryFromTopSeen ==
  \E i \in TaskIds :
    /\ tasks[i].attempt > 0
    /\ tasks[i].pc = "sleep"
    /\ ~tasks[i].permit
    /\ \E j \in TaskIds \ {i} : tasks[j].pc = "transport"

\* crawl left its loop by a break
Broke == cpc = "returned" /\ stopped \in {"max_pages", "max_time"}

\* C25: the break of a max_pages or max_time stop cancels every task not
\* yet joined; from then on nothing is sent, nothing is added to pages,
\* no task is spawned and no url is added to visited, so the result holds
\* the pages recorded up to the break only.
StopCancelsTasks ==
  [][/\ (cpc = "loop" /\ Broke') =>
          \A i \in DOMAIN tasks' : tasks'[i].pc # "joined" => tasks'[i].abort
     /\ Broke =>
          /\ Broke'
          /\ pages' = pages
          /\ sent' = sent
          /\ visited' = visited
          /\ page_count' = page_count
          /\ Len(tasks') = Len(tasks)
          /\ \A i \in TaskIds :
               /\ tasks[i].pc # "joined" => tasks[i].abort
               /\ tasks'[i].pc = "joined" => tasks[i].pc = "joined"]_vars

\* after a max_pages stop a cancelled task read a page that crawl never
\* recorded, and was dropped
StopCancelsTasksSeen ==
  /\ Broke
  /\ \E i \in TaskIds :
       /\ tasks[i].pc = "dropped"
       /\ tasks[i].res = "page"
       /\ \A k \in DOMAIN pages : pages[k].url # tasks[i].url

\* crawl takes the page of task i in this step
JoinsPage(i) ==
  /\ tasks[i].pc = "done"
  /\ tasks[i].res = "page"
  /\ tasks'[i].pc = "joined"

\* the links of a page that the loop over its links spawns a task for
NewLinks(page) == {l \in page.links : can_visit(l) /\ l \notin visited}

\* C26: for a page that crawl takes, the page is sent and recorded whether
\* it stops the crawl or not; max_pages is tested first, then max_time;
\* only a page that passes both has its links expanded, and a page that
\* triggers a stop adds no link to visited and spawns no task.
SendRecordCheckExpand ==
  [][\A i \in TaskIds :
       JoinsPage(i) =>
         LET page == Unwrap(tasks[i].page) IN
           /\ sent' = Append(sent, page)
           /\ pages' = Append(pages, page)
           /\ IF max_pages = Some(page_count + 1)
                THEN /\ stopped' = "max_pages"
                     /\ cpc' = "returned"
                     /\ visited' = visited
                     /\ Len(tasks') = Len(tasks)
              ELSE IF OverTime
                THEN /\ stopped' = "max_time"
                     /\ cpc' = "returned"
                     /\ visited' = visited
                     /\ Len(tasks') = Len(tasks)
              ELSE /\ cpc' = "loop"
                   /\ visited' = visited \cup NewLinks(page)
                   /\ Len(tasks') = Len(tasks) + Cardinality(NewLinks(page))
                   /\ {tasks'[j].url : j \in Len(tasks) + 1 .. Len(tasks')}
                        = NewLinks(page)]_vars

\* a page stopped the crawl at max_time: it is the last one sent and
\* recorded, and a link of it that may be visited is not in visited
SendRecordCheckExpandSeen ==
  /\ cpc = "returned"
  /\ stopped = "max_time"
  /\ pages # <<>>
  /\ sent # <<>>
  /\ sent[Len(sent)] = pages[Len(pages)]
  /\ \E l \in pages[Len(pages)].links : can_visit(l) /\ l \notin visited

\* C27: when crawl returns, every link of every recorded page is in
\* visited or may not be visited; for every crawl, those ended by a
\* max_pages or max_time stop included.
LinksVisitedAlways ==
  cpc = "returned" =>
    \A k \in DOMAIN pages :
      \A l \in pages[k].links : l \in visited \/ ~can_visit(l)

\* the pages whose links the loop went over: all of them, but for the
\* last one when it stopped the crawl
Expanded == IF Broke THEN 1 .. Len(pages) - 1 ELSE DOMAIN pages

\* C27, as the code has it: the same for every recorded page but the one
\* that triggered a max_pages or max_time stop.
LinksVisitedUnlessStop ==
  cpc = "returned" =>
    \A k \in Expanded :
      \A l \in pages[k].links : l \in visited \/ ~can_visit(l)

\* a stopped crawl returned two pages or more, the last with a link that
\* may be visited and is not in visited, an earlier one with a link that
\* is in visited
LinksVisitedUnlessStopSeen ==
  /\ Broke
  /\ Len(pages) >= 2
  /\ \E l \in pages[Len(pages)].links : can_visit(l) /\ l \notin visited
  /\ \E k \in Expanded : \E l \in pages[k].links : l \in visited

\* C28: the permit of a fetch is held until the visitor has the whole
\* page or has failed: a task that reads the body of its response holds
\* its permit, and the permits out are those of the requests and of the
\* bodies being read.
PermitHeldToBody ==
  limiter =>
    /\ \A i \in TaskIds : tasks[i].pc = "body" => tasks[i].permit
    /\ available = capacity
         - Cardinality({i \in TaskIds : tasks[i].pc \in {"transport", "body"}})

\* C29: a response that is no 429, or a transport error, leaves the
\* slowdown state as it is; the state becomes Some only in the
\* post-response hook of a 429, and None only in a pre-request hook that
\* read a not-before that was over.
OnlyA429Sets ==
  [][/\ \A i \in TaskIds :
          (tasks[i].pc = "transport" /\ tasks'[i].pc \notin {"transport", "post"})
            => retry_after' = retry_after
     /\ (retry_after' # retry_after /\ IsSome(retry_after')) =>
          \E i \in TaskIds :
            /\ tasks[i].pc = "post"
            /\ tasks[i].resp.status = 429
            /\ tasks'[i].pc # "post"
     /\ (retry_after' # retry_after /\ retry_after' = None) =>
          \E i \in TaskIds :
            /\ tasks[i].pc = "clear"
            /\ tasks'[i].pc # "clear"
            /\ IsSome(tasks[i].seen)
            /\ Unwrap(tasks[i].seen) < now]_vars

\* a 429 set the state and a hook has cleared it since; a 200 and a
\* transport error have been answered
OnlyA429SetsSeen ==
  /\ retry_after = None
  /\ IsSome(due.stored)
  /\ \E i \in TaskIds : tasks[i].pc = "body"
  /\ \E i \in TaskIds : tasks[i].pc = "done" /\ tasks[i].res = "error"

\* C30: the post-response hook of a 429 stores now + d for the delay d
\* of that response, whatever the state holds: no not-before is kept
\* because it is later.
LatestSignalWins ==
  [][\A i \in TaskIds :
       (tasks[i].pc = "post" /\ tasks'[i].pc # "post") =>
         /\ tasks[i].resp.status = 429
         /\ retry_after' = Some(now + StatedDelay(tasks[i].resp.hdr))
         /\ due'.stored = retry_after']_vars

\* the stored not-before is earlier than the one asked for by an earlier
\* 429 with Retry-After: 2
LatestSignalWinsSeen ==
  /\ IsSome(retry_after)
  /\ Unwrap(retry_after) < due.clamped
  /\ hits >= 2
  /\ \A i \in TaskIds : tasks[i].pc # "post"

\* C31: a link is rejected when the page URL or the link URL has no
\* domain: a page without a domain has no link, every link has a domain,
\* and no link of a page of one IP address has another IP address as host.
NoDomainNoLink ==
  IsSome(doc.links) =>
    /\ domain(doc.url) = None => Unwrap(doc.links) = {}
    /\ \A l \in Unwrap(doc.links) :
         /\ IsSome(domain(l))
         /\ (Unwrap(doc.url.host) \in Ips /\ Unwrap(l.host) \in Ips)
              => l.host = doc.url.host

\* C32: visited only grows; it changes only in a step of crawl itself,
\* the start or the taking of a page, never in a step of a fetch task;
\* it is at every point the set of the urls a task was spawned for, and
\* the url of every recorded page is in it.
VisitedIsSpawned ==
  [][/\ visited \subseteq visited'
     /\ visited' = {tasks'[i].url : i \in DOMAIN tasks'}
     /\ \A k \in DOMAIN pages' : pages'[k].url \in visited'
     /\ visited' # visited =>
          \/ cpc = "built" /\ cpc' = "loop"
          \/ \E i \in TaskIds : JoinsPage(i)
     /\ Len(tasks') # Len(tasks) => visited' # visited]_vars

\* three urls are in visited, two pages are recorded and a request of a
\* fetch task is in flight
VisitedIsSpawnedSeen ==
  /\ cpc = "loop"
  /\ Cardinality(visited) >= 3
  /\ Len(pages) >= 2
  /\ \E i \in TaskIds : tasks[i].pc = "transport"

\* a not-before that is still ahead is stored
LaterStored == IsSome(retry_after) /\ Unwrap(retry_after) > now

\* C33: the slowdown state is read once, at the entry of the hook.  A task
\* holds a value read only while it sleeps on it or is about to clear it;
\* with a not-before that is still ahead stored, a sleeper whose own
\* not-before is over can leave the hook, and a task queued for a permit
\* can take one as soon as one is available.
ReadOnceAtEntry ==
  \A i \in TaskIds :
    /\ IsSome(tasks[i].seen) <=> tasks[i].pc \in {"sleep", "clear"}
    /\ (tasks[i].pc = "sleep" /\ now >= Unwrap(tasks[i].seen) /\ LaterStored)
         => ENABLED SleepDone(i)
    /\ (tasks[i].pc = "acquire" /\ available > 0 /\ LaterStored)
         => ENABLED Acquire(i)

\* a sleeper's not-before is over while a later one, stored by the other
\* worker since, is still ahead
ReadOnceAtEntrySeen ==
  /\ LaterStored
  /\ \E i \in TaskIds :
       /\ tasks[i].pc = "sleep"
       /\ now >= Unwrap(tasks[i].seen)
       /\ Unwrap(retry_after) > Unwrap(tasks[i].seen)

====
